---- MODULE Spec2Model ----
(***************************************************************************)
(* Model of sherwood_train_mex.cpp: the MATLAB entry point mexFunction,    *)
(* which selects a weak-learner variant, and main_function<F,S>, which     *)
(* prepares the training context, trains a forest either with the          *)
(* single-threaded ForestTrainer or with an OpenMP parallel-for loop whose *)
(* iterations append to a shared forest under a lock, and serializes it.   *)
(***************************************************************************)
EXTENDS Naturals, Integers, Sequences, FiniteSets, TLC

\* ---------------------------------------------------------------- bounds
MaxTrees == 2           \* largest options.NumberOfTrees explored
MaxThreadsBound == 2    \* largest options.MaxThreads explored
MaxDimensions == 2      \* largest trainingData.Dimensions() explored

\* Values explored for the depth and the two candidate counts: one that is
\* not positive and one that is.
ParamValues == {0, 1}
\* Combinations explored for <<MaxDecisionLevels, NumberOfCandidateFeatures,
\* NumberOfCandidateThresholdsPerFeature>>: at most one is not positive.
ParamTriples ==
  {p \in ParamValues \X ParamValues \X ParamValues :
     Cardinality({i \in 1..3 : p[i] <= 0}) <= 1}
\* Number of states of the random source: enough to tell apart every draw
\* of one run.
RandMod == MaxTrees + 2

\* ------------------------------------------------------------- constants
AxisAligned == "AxisAligned"
RandomHyperplane == "RandomHyperplane"
OtherLearner == "Other"
WeakLearners == {AxisAligned, RandomHyperplane, OtherLearner}

NoLock == 0
NoTask == -1
NoTree == [task |-> NoTask, draw |-> 0]

Threads == 1..MaxThreadsBound

VARIABLES
  USE_OPENMP,          \* build flag: TRUE when compiled with USE_OPENMP == 1
  Dimensions,          \* trainingData.Dimensions()
  mexOptions,          \* mexFunction's local "options" (never modified)
  options,             \* main_function's by-value parameter "options"
  pc,                  \* position of the calling (master) thread
  F,                   \* feature-response template argument of main_function
  trainingParameters,  \* TrainingParameters built from the options
  featureStats,        \* std::vector<Stats> handed to the FeatureFactory
  factoryStats,        \* FeatureFactory::featureStats (copied at construction)
  printed,             \* set of mexPrintf notes shown to the caller
  random,              \* state of the one Random object of main_function
  forest,              \* std::auto_ptr<Forest>: [ptr, trees]
  mode,                \* which branch of "Create forest" ran
  writelock,           \* omp_lock_t: NoLock or the owning thread
  pending,             \* iterations of the parallel for not yet started
  wpc, wt, wr, wtree, wn,  \* per-thread position and locals of the loop body
  sink,                \* state of std::ofstream o
  artifact,            \* what the output file holds
  serializeCalls,      \* number of Forest::Serialize invocations
  finished,            \* iterations in the order their TrainTree call returned
  lockAcquisitions,    \* number of omp_set_lock calls that have returned
  ompNumThreads,       \* value last given to omp_set_num_threads (0: none)
  outcome              \* how the mexFunction call ended

workerVars == <<writelock, pending, wpc, wt, wr, wtree, wn>>
ioVars == <<sink, artifact, serializeCalls, outcome>>
cfgVars == <<USE_OPENMP, Dimensions, mexOptions>>
histVars == <<finished, lockAcquisitions, ompNumThreads>>
vars == <<USE_OPENMP, Dimensions, mexOptions, options, pc, F,
          trainingParameters, featureStats, factoryStats, printed, random,
          forest, mode, writelock, pending, wpc, wt, wr, wtree, wn,
          sink, artifact, serializeCalls, outcome,
          finished, lockAcquisitions, ompNumThreads>>

\* A depth or candidate count that is not positive.
InvalidParameters(o) ==
  \/ o.MaxDecisionLevels <= 0
  \/ o.NumberOfCandidateFeatures <= 0
  \/ o.NumberOfCandidateThresholdsPerFeature <= 0

OptionsSet ==
  {[MaxDecisionLevels |-> p[1],
    NumberOfCandidateFeatures |-> p[2],
    NumberOfCandidateThresholdsPerFeature |-> p[3],
    NumberOfTrees |-> n,
    MaxThreads |-> m,
    WeakLearner |-> l,
    FeatureScaling |-> fs,
    Verbose |-> v] :
     p \in ParamTriples, n \in 0..MaxTrees, m \in 0..MaxThreadsBound,
     l \in WeakLearners, fs \in BOOLEAN, v \in BOOLEAN}

NoParameters ==
  [MaxDecisionLevels |-> 0, NumberOfCandidateFeatures |-> 0,
   NumberOfCandidateThresholdsPerFeature |-> 0, NumberOfTrees |-> 0,
   Verbose |-> FALSE]

NullForest == [ptr |-> "null", trees |-> <<>>]

Init ==
  /\ USE_OPENMP \in BOOLEAN
  /\ Dimensions \in 1..MaxDimensions
  /\ mexOptions \in OptionsSet
  /\ options = mexOptions
  /\ pc = "mexFunction"
  /\ F = "none"
  /\ trainingParameters = NoParameters
  /\ featureStats = <<>>
  /\ factoryStats = <<>>
  /\ printed = {}
  /\ random = 0
  /\ forest = NullForest
  /\ mode = "none"
  /\ writelock = NoLock
  /\ pending = {}
  /\ wpc = [w \in Threads |-> "out"]
  /\ wt = [w \in Threads |-> NoTask]
  /\ wr = [w \in Threads |-> 0]
  /\ wtree = [w \in Threads |-> NoTree]
  /\ wn = [w \in Threads |-> 0]
  /\ sink = "closed"
  /\ artifact = [exists |-> FALSE, complete |-> FALSE, trees |-> <<>>]
  /\ serializeCalls = 0
  /\ outcome = "running"
  /\ finished = <<>>
  /\ lockAcquisitions = 0
  /\ ompNumThreads = 0

\* ------------------------------------------------------------ mexFunction
\* A dispatch that picks the normalized variant for every random hyperplane.
SelectVariantIgnoringScaling(o) ==
  IF o.WeakLearner = AxisAligned THEN "AxisAlignedFeatureResponse"
  ELSE IF o.WeakLearner = RandomHyperplane
       THEN "RandomHyperplaneFeatureResponseNormalized"
  ELSE "none"

\* A dispatch whose chain ends in a plain else that trains axis-aligned.
SelectVariantWithDefault(o) ==
  IF o.WeakLearner = RandomHyperplane /\ ~o.FeatureScaling
    THEN "RandomHyperplaneFeatureResponse"
  ELSE IF o.WeakLearner = RandomHyperplane /\ o.FeatureScaling
    THEN "RandomHyperplaneFeatureResponseNormalized"
  ELSE "AxisAlignedFeatureResponse"

\* The template instantiation chosen by the if / else-if chain.
SelectVariant(o) ==
  IF o.WeakLearner = AxisAligned THEN "AxisAlignedFeatureResponse"
  ELSE IF o.WeakLearner = RandomHyperplane /\ ~o.FeatureScaling
       THEN "RandomHyperplaneFeatureResponse"
  ELSE IF o.WeakLearner = RandomHyperplane /\ o.FeatureScaling
       THEN "RandomHyperplaneFeatureResponseNormalized"
  ELSE "none"

mexFunction ==
  /\ pc = "mexFunction"
  /\ F' = SelectVariant(mexOptions)
  /\ IF F' = "none"
       THEN /\ pc' = "returned"
            /\ outcome' = "success"
       ELSE /\ pc' = "main_function"
            /\ outcome' = outcome
  /\ options' = mexOptions
  /\ UNCHANGED <<cfgVars, histVars, trainingParameters, featureStats,
                 factoryStats, printed, random, forest, mode, workerVars,
                 sink, artifact, serializeCalls>>

\* ---------------------------------------------------------- main_function
\* TrainingParameters as filled in from the options; Verbose is forced off.
TrainingParametersOf(o) ==
  [MaxDecisionLevels |-> o.MaxDecisionLevels,
   NumberOfCandidateFeatures |-> o.NumberOfCandidateFeatures,
   NumberOfCandidateThresholdsPerFeature |->
       o.NumberOfCandidateThresholdsPerFeature,
   NumberOfTrees |-> o.NumberOfTrees,
   Verbose |-> FALSE]

\* Arguments, training parameters, the dataset, the verbose banner and the
\* construction of the Random object.
main_function ==
  /\ pc = "main_function"
  /\ trainingParameters' = TrainingParametersOf(options)
  /\ printed' = printed \cup (IF options.Verbose THEN {"TrainingData"} ELSE {})
  /\ random' = 0
  /\ pc' = "featureStats"
  /\ UNCHANGED <<cfgVars, histVars, options, F, featureStats, factoryStats,
                 forest, mode, workerVars, ioVars>>

\* trainingData.GetStats(d): the dataset's statistics of feature d.
GetStats(d) == [feature |-> d]

\* A loop that stops one feature short (d < Dimensions() - 1).
ComputeFeatureStatsShort(o, dims) ==
  IF ~o.FeatureScaling THEN <<>>
  ELSE [i \in 1..dims - 1 |-> GetStats(i - 1)]

\* The vector built by the for loop over d = 0 .. Dimensions()-1.
ComputeFeatureStats(o, dims) ==
  IF ~o.FeatureScaling THEN <<>>
  ELSE [i \in 1..dims |-> GetStats(i - 1)]

\* A note that forgets to exempt the axis-aligned learner.
NoScalingNoteAnyLearner(o) == ~o.FeatureScaling /\ o.Verbose

\* Condition under which the "No feature scaling is performed" note prints.
NoScalingNote(o) ==
  ~o.FeatureScaling /\ o.Verbose /\ o.WeakLearner # AxisAligned

BuildFeatureStats ==
  /\ pc = "featureStats"
  /\ featureStats' = ComputeFeatureStats(options, Dimensions)
  /\ factoryStats' = featureStats'
  /\ printed' = printed
        \cup (IF NoScalingNote(options) THEN {"NoScaling"} ELSE {})
        \cup (IF options.FeatureScaling /\ options.Verbose /\ Dimensions > 0
                THEN {"FeatureStats"} ELSE {})
  /\ pc' = "openmp_check"
  /\ UNCHANGED <<cfgVars, histVars, options, F, trainingParameters, random,
                 forest, mode, workerVars, ioVars>>

\* A fallback note that is also printed for a single requested thread.
FallbackNoteAlways(o) == o.MaxThreads >= 1

\* The "#if USE_OPENMP == 0" block and the declaration of the null auto_ptr.
FallbackNote(o) == o.MaxThreads > 1

\* A fallback that prints its note but leaves options.MaxThreads alone.
OpenMPCheckNoReset ==
  /\ pc = "openmp_check"
  /\ IF ~USE_OPENMP
       THEN /\ printed' = printed
                 \cup (IF FallbackNote(options) THEN {"Fallback"} ELSE {})
            /\ options' = options
       ELSE UNCHANGED <<printed, options>>
  /\ forest' = NullForest
  /\ pc' = "create_forest"
  /\ UNCHANGED <<cfgVars, histVars, F, trainingParameters, featureStats,
                 factoryStats, random, mode, workerVars, ioVars>>

OpenMPCheck ==
  /\ pc = "openmp_check"
  /\ IF ~USE_OPENMP
       THEN /\ printed' = printed
                 \cup (IF FallbackNote(options) THEN {"Fallback"} ELSE {})
            /\ options' = [options EXCEPT !.MaxThreads = 1]
       ELSE UNCHANGED <<printed, options>>
  /\ forest' = NullForest
  /\ pc' = "create_forest"
  /\ UNCHANGED <<cfgVars, histVars, F, trainingParameters, featureStats,
                 factoryStats, random, mode, workerVars, ioVars>>

\* One tree of the forest: the loop iteration that trained it and the value
\* it drew from the random source.
NextRandom(r) == (r + 1) % RandMod
Tree(t, r) == [task |-> t, draw |-> r]

\* ForestTrainer::TrainForest: trains NumberOfTrees trees one after the
\* other from the one random sequence and appends each to a new forest.
RECURSIVE TrainForest(_, _, _, _)
TrainForest(r, n, t, trees) ==
  IF t >= n THEN [trees |-> trees, random |-> r]
  ELSE TrainForest(NextRandom(r), n, t + 1, Append(trees, Tree(t, r)))

\* A test that also sends a non-positive MaxThreads to the single thread.
SingleThreadedOrFewer(o) == o.MaxThreads <= 1

SingleThreaded(o) == o.MaxThreads = 1

TrainSingle ==
  /\ pc = "create_forest"
  /\ SingleThreaded(options)
  /\ printed' = printed \cup {"Using1Thread"}
  /\ LET res == TrainForest(random, trainingParameters.NumberOfTrees, 0, <<>>)
     IN /\ forest' = [ptr |-> "alloc", trees |-> res.trees]
        /\ random' = res.random
        /\ finished' = [i \in 1..Len(res.trees) |-> res.trees[i].task]
  /\ mode' = "single"
  /\ pc' = "save"
  /\ UNCHANGED <<cfgVars, lockAcquisitions, ompNumThreads, options, F,
                 trainingParameters, featureStats, factoryStats, workerVars,
                 ioVars>>

\* --------------------------------------------------- the OpenMP branch
\* Team sizes omp_set_num_threads(n) can produce; a non-positive request is
\* implementation defined.
TeamSizes(n) == IF n >= 1 THEN {n} ELSE 1..MaxThreadsBound

\* A loop that runs one iteration too many (t <= NumberOfTrees).
LoopIterationsInclusive(n) == {t \in 0..MaxTrees + 1 : t <= n}

\* Iterations of "for (int t = 0; t < NumberOfTrees; t++)".
LoopIterations(n) == {t \in 0..MaxTrees + 1 : t < n}

ParallelStart ==
  /\ pc = "create_forest"
  /\ ~SingleThreaded(options)
  /\ IF USE_OPENMP
       THEN /\ \E n \in TeamSizes(options.MaxThreads) :
                 wpc' = [w \in Threads |-> IF w <= n THEN "idle" ELSE "out"]
            /\ printed' = printed
                 \cup (IF options.Verbose THEN {"UsingOpenMP"} ELSE {})
            /\ forest' = [ptr |-> "alloc", trees |-> <<>>]
            /\ writelock' = NoLock
            /\ pending' = LoopIterations(trainingParameters.NumberOfTrees)
            /\ mode' = "parallel"
            /\ ompNumThreads' = options.MaxThreads
            /\ pc' = "parallel_for"
       ELSE /\ pc' = "save"
            /\ UNCHANGED <<wpc, printed, forest, writelock, pending, mode,
                           ompNumThreads>>
  /\ UNCHANGED <<cfgVars, finished, lockAcquisitions, options, F,
                 trainingParameters, featureStats, factoryStats, random, wt,
                 wr, wtree, wn, ioVars>>

mainVars == <<cfgVars, options, pc, F, trainingParameters, featureStats,
              factoryStats, printed, mode, ioVars, ompNumThreads>>

\* A thread of the team takes an iteration of the loop.
StartIteration(w) ==
  /\ pc = "parallel_for"
  /\ wpc[w] = "idle"
  /\ \E t \in pending :
       /\ pending' = pending \ {t}
       /\ wt' = [wt EXCEPT ![w] = t]
  /\ wpc' = [wpc EXCEPT ![w] = "TrainTree"]
  /\ UNCHANGED <<mainVars, finished, lockAcquisitions, random, forest,
                 writelock, wr, wtree, wn>>

\* TreeTrainer::TrainTree(random, ...): a draw reads the state of the shared
\* Random object ...
TrainTreeRead(w) ==
  /\ wpc[w] = "TrainTree"
  /\ wr' = [wr EXCEPT ![w] = random]
  /\ wpc' = [wpc EXCEPT ![w] = "TrainTreeDraw"]
  /\ UNCHANGED <<mainVars, finished, lockAcquisitions, random, forest,
                 writelock, pending, wt, wtree, wn>>

\* ... and then writes the advanced state back; the tree is complete.
TrainTreeWrite(w) ==
  /\ wpc[w] = "TrainTreeDraw"
  /\ random' = NextRandom(wr[w])
  /\ wtree' = [wtree EXCEPT ![w] = Tree(wt[w], wr[w])]
  /\ finished' = Append(finished, wt[w])
  /\ wpc' = [wpc EXCEPT ![w] = "omp_set_lock"]
  /\ UNCHANGED <<mainVars, lockAcquisitions, forest, writelock, pending, wt,
                 wr, wn>>

\* A lock that never makes a thread wait.
LockNeverHeld(l) == TRUE

\* omp_set_lock blocks until the lock is free.
LockAvailable(l) == l = NoLock

SetLock(w) ==
  /\ wpc[w] = "omp_set_lock"
  /\ LockAvailable(writelock)
  /\ writelock' = w
  /\ lockAcquisitions' = lockAcquisitions + 1
  /\ wpc' = [wpc EXCEPT ![w] = "AddTree"]
  /\ UNCHANGED <<mainVars, finished, random, forest, pending, wt, wr, wtree,
                 wn>>

\* forest->AddTree(tree): push_back reads the end of the tree vector ...
AddTreeBegin(w) ==
  /\ wpc[w] = "AddTree"
  /\ wn' = [wn EXCEPT ![w] = Len(forest.trees)]
  /\ wpc' = [wpc EXCEPT ![w] = "AddTreeStore"]
  /\ UNCHANGED <<mainVars, finished, lockAcquisitions, random, forest,
                 writelock, pending, wt, wr, wtree>>

\* A container that puts the new tree in front of the others.
PushFront(trees, n, tree) == <<tree>> \o trees

\* ... and stores the tree there, making the vector one longer.
PushBack(trees, n, tree) ==
  IF Len(trees) > n THEN [trees EXCEPT ![n + 1] = tree]
  ELSE Append(trees, tree)

AddTreeStore(w) ==
  /\ wpc[w] = "AddTreeStore"
  /\ forest' = [forest EXCEPT !.trees = PushBack(forest.trees, wn[w], wtree[w])]
  /\ wpc' = [wpc EXCEPT ![w] = "omp_unset_lock"]
  /\ UNCHANGED <<mainVars, finished, lockAcquisitions, random, writelock,
                 pending, wt, wr, wtree, wn>>

\* A loop body that never gives the lock back.
UnsetLockMissing(w) ==
  /\ wpc[w] = "omp_unset_lock"
  /\ wpc' = [wpc EXCEPT ![w] = "idle"]
  /\ wt' = [wt EXCEPT ![w] = NoTask]
  /\ wtree' = [wtree EXCEPT ![w] = NoTree]
  /\ wr' = [wr EXCEPT ![w] = 0]
  /\ wn' = [wn EXCEPT ![w] = 0]
  /\ UNCHANGED <<mainVars, finished, lockAcquisitions, random, forest,
                 pending, writelock>>

UnsetLock(w) ==
  /\ wpc[w] = "omp_unset_lock"
  /\ writelock' = NoLock
  /\ wpc' = [wpc EXCEPT ![w] = "idle"]
  /\ wt' = [wt EXCEPT ![w] = NoTask]
  /\ wtree' = [wtree EXCEPT ![w] = NoTree]
  /\ wr' = [wr EXCEPT ![w] = 0]
  /\ wn' = [wn EXCEPT ![w] = 0]
  /\ UNCHANGED <<mainVars, finished, lockAcquisitions, random, forest, pending>>

\* A loop that is left as soon as every iteration has been handed out
\* (the loop run with "nowait").
LoopHandedOut(pcs, pend) == pend = {}

\* The implicit barrier that ends the parallel for: no iteration is left and
\* every thread of the team has finished its last one.
LoopFinished(pcs, pend) ==
  /\ pend = {}
  /\ \A w \in Threads : pcs[w] \in {"idle", "out"}

ParallelEnd ==
  /\ pc = "parallel_for"
  /\ LoopFinished(wpc, pending)
  /\ wpc' = [w \in Threads |-> IF wpc[w] = "idle" THEN "out" ELSE wpc[w]]
  /\ writelock' = writelock
  /\ pc' = "save"
  /\ UNCHANGED <<cfgVars, histVars, options, F, trainingParameters,
                 featureStats, factoryStats, printed, random, forest, mode,
                 pending, wt, wr, wtree, wn, ioVars>>

\* ------------------------------------------------------ saving the forest
NoArtifact == [exists |-> FALSE, complete |-> FALSE, trees |-> <<>>]

\* std::ofstream o(options.ForestName.c_str(), std::ios_base::binary):
\* the open either succeeds (the file is created empty) or sets failbit.
OpenSink ==
  /\ pc = "save"
  /\ \E ok \in BOOLEAN :
       IF ok THEN /\ sink' = "good"
                  /\ artifact' = [exists |-> TRUE, complete |-> FALSE,
                                  trees |-> <<>>]
             ELSE /\ sink' = "fail"
                  /\ artifact' = artifact
  /\ pc' = "Serialize"
  /\ UNCHANGED <<cfgVars, histVars, options, F, trainingParameters,
                 featureStats, factoryStats, printed, random, forest, mode,
                 workerVars, serializeCalls, outcome>>

\* Forest::Serialize ends by throwing when the stream has gone bad, which a
\* failed write makes it and a failed open (failbit only) does not.
SerializeResult(s) == IF s = "bad" THEN "error" ELSE "success"

\* forest->Serialize(o) and the return to mexFunction.  Dereferencing a null
\* auto_ptr is undefined; the stream is never tested after the open, and
\* writes to a stream whose open failed do nothing.
Serialize ==
  /\ pc = "Serialize"
  /\ serializeCalls' = serializeCalls + 1
  /\ IF forest.ptr = "null"
       THEN /\ outcome' \in {"crash", "success"}
            /\ UNCHANGED <<sink, artifact>>
       ELSE IF sink = "good"
       THEN \E written \in BOOLEAN :
              IF written
                THEN /\ artifact' = [exists |-> TRUE, complete |-> TRUE,
                                     trees |-> forest.trees]
                     /\ sink' = sink
                     /\ outcome' = SerializeResult(sink')
                ELSE /\ artifact' = artifact
                     /\ sink' = "bad"
                     /\ outcome' = SerializeResult(sink')
       ELSE /\ outcome' = SerializeResult(sink)
            /\ UNCHANGED <<sink, artifact>>
  /\ pc' = "returned"
  /\ UNCHANGED <<cfgVars, histVars, options, F, trainingParameters,
                 featureStats, factoryStats, printed, random, forest, mode,
                 workerVars>>

Worker(w) ==
  \/ StartIteration(w)
  \/ TrainTreeRead(w)
  \/ TrainTreeWrite(w)
  \/ SetLock(w)
  \/ AddTreeBegin(w)
  \/ AddTreeStore(w)
  \/ UnsetLock(w)

Next ==
  \/ mexFunction
  \/ main_function
  \/ BuildFeatureStats
  \/ OpenMPCheck
  \/ TrainSingle
  \/ ParallelStart
  \/ \E w \in Threads : Worker(w)
  \/ ParallelEnd
  \/ OpenSink
  \/ Serialize

Spec == Init /\ [][Next]_vars

\* ------------------------------------------- training that can fail
\* ForestTrainer::TrainForest throws while training one of its trees: the
\* exception leaves main_function before forest is assigned and before the
\* forest is saved, and MATLAB reports the error.
TrainSingleFault ==
  /\ pc = "create_forest"
  /\ SingleThreaded(options)
  /\ trainingParameters.NumberOfTrees > 0
  /\ printed' = printed \cup {"Using1Thread"}
  /\ \E k \in 0..trainingParameters.NumberOfTrees - 1 :
       LET res == TrainForest(random, k, 0, <<>>)
       IN /\ random' = res.random
          /\ finished' = [i \in 1..Len(res.trees) |-> res.trees[i].task]
  /\ mode' = "single"
  /\ outcome' = "fault"
  /\ pc' = "returned"
  /\ UNCHANGED <<cfgVars, lockAcquisitions, ompNumThreads, options, F,
                 trainingParameters, featureStats, factoryStats, forest,
                 workerVars, sink, artifact, serializeCalls>>

\* A loop body that swallows the exception and goes on to its next
\* iteration without a tree.
FaultSwallowed(w) ==
  /\ wpc' = [wpc EXCEPT ![w] = "idle"]
  /\ wt' = [wt EXCEPT ![w] = NoTask]
  /\ wr' = [wr EXCEPT ![w] = 0]
  /\ UNCHANGED <<mainVars, finished, lockAcquisitions, random, forest,
                 writelock, pending, wtree, wn>>

\* An exception that leaves the body of the parallel for: nothing in the
\* loop catches it, so the process is terminated with all of its threads.
FaultEffect(w) ==
  /\ outcome' = "terminate"
  /\ pc' = "returned"
  /\ wpc' = [x \in Threads |-> "out"]
  /\ UNCHANGED <<cfgVars, histVars, options, F, trainingParameters,
                 featureStats, factoryStats, printed, random, forest, mode,
                 writelock, pending, wt, wr, wtree, wn, sink, artifact,
                 serializeCalls>>

\* TreeTrainer::TrainTree throws in a thread of the team.
TrainTreeFault(w) ==
  /\ pc = "parallel_for"
  /\ wpc[w] \in {"TrainTree", "TrainTreeDraw"}
  /\ FaultEffect(w)

NextFault ==
  \/ Next
  \/ TrainSingleFault
  \/ \E w \in Threads : TrainTreeFault(w)

\* The inputs that do not bear on training are held fixed.
InitFault ==
  /\ Init
  /\ Dimensions = 1
  /\ ~mexOptions.Verbose

FaultSpec == InitFault /\ [][NextFault]_vars

\* ------------------------------------------------- fair scheduling
\* The calling thread keeps executing main_function, and every thread of
\* the team keeps being scheduled while it has a step to take.
MainThread ==
  \/ mexFunction
  \/ main_function
  \/ BuildFeatureStats
  \/ OpenMPCheck
  \/ TrainSingle
  \/ ParallelStart
  \/ ParallelEnd
  \/ OpenSink
  \/ Serialize

Fairness ==
  /\ WF_vars(MainThread)
  /\ \A w \in Threads : WF_vars(Worker(w))

\* The inputs that do not bear on scheduling are held fixed.
InitFair ==
  /\ Init
  /\ Dimensions = 1
  /\ ~mexOptions.Verbose
  /\ ~mexOptions.FeatureScaling
  /\ ~InvalidParameters(mexOptions)

FairSpec == InitFair /\ [][Next]_vars /\ Fairness

TypeOK ==
  /\ pc \in {"mexFunction", "main_function", "featureStats", "openmp_check",
             "create_forest", "parallel_for", "save", "Serialize", "returned"}
  /\ options \in OptionsSet
  /\ writelock \in {NoLock} \cup Threads
  /\ random \in 0..RandMod - 1
  /\ sink \in {"closed", "good", "fail", "bad"}
  /\ outcome \in {"running", "success", "error", "crash", "fault",
                  "terminate"}
  /\ lockAcquisitions \in 0..MaxTrees + 1
  /\ ompNumThreads \in 0..MaxThreadsBound

\* ------------------------------------------------------------ properties
Normalized == "RandomHyperplaneFeatureResponseNormalized"

\* main_function has been entered.
Entered == F # "none"

\* The feature statistics and the factory have been built.
AfterStats ==
  /\ Entered
  /\ pc \in {"openmp_check", "create_forest", "parallel_for", "save",
             "Serialize", "returned"}

\* The "Create forest" statement has finished.
AfterTraining == Entered /\ pc \in {"save", "Serialize", "returned"}

\* Threads inside the loop body, by what they are doing.
Training == {w \in Threads : wpc[w] \in {"TrainTree", "TrainTreeDraw"}}
Drawing == {w \in Threads : wpc[w] = "TrainTreeDraw"}
Appending == {w \in Threads : wpc[w] \in {"AddTree", "AddTreeStore"}}
InBody == {w \in Threads : wpc[w] \notin {"idle", "out"}}

\* Loop iterations whose tree is in the forest.
TasksInForest == {forest.trees[i].task : i \in 1..Len(forest.trees)}

\* C1: for NumberOfTrees > 0 and MaxThreads >= 1, on the single-threaded, the
\* OpenMP and the fallback path alike, the forest on which Serialize is
\* called is allocated and holds exactly NumberOfTrees trees.
C1_ForestHasNumberOfTrees ==
  (/\ Entered
   /\ pc \in {"Serialize", "returned"}
   /\ mexOptions.NumberOfTrees > 0
   /\ mexOptions.MaxThreads >= 1)
  => /\ forest.ptr = "alloc"
     /\ Len(forest.trees) = mexOptions.NumberOfTrees

C1_Witness ==
  /\ pc = "Serialize"
  /\ mode = "parallel"
  /\ mexOptions.MaxThreads = MaxThreadsBound
  /\ mexOptions.NumberOfTrees = MaxTrees
  /\ Len(forest.trees) = MaxTrees

\* C2: in the OpenMP loop every iteration puts its tree into the forest
\* exactly once: no iteration ever appears twice, an iteration that has
\* finished its body is in the forest, and once the loop has ended the
\* forest holds the trees of iterations 0 .. NumberOfTrees-1, each once, in
\* whatever order the threads appended them.
C2_EachTreeExactlyOnce ==
  mode = "parallel" =>
    /\ \A i, j \in 1..Len(forest.trees) :
         i # j => forest.trees[i].task # forest.trees[j].task
    /\ \A t \in 0..trainingParameters.NumberOfTrees - 1 :
         (/\ t \notin pending
          /\ \A w \in Threads :
               wt[w] = t => wpc[w] \in {"omp_unset_lock", "idle", "out"})
         => t \in TasksInForest
    /\ AfterTraining =>
         /\ Len(forest.trees) = trainingParameters.NumberOfTrees
         /\ TasksInForest = 0..trainingParameters.NumberOfTrees - 1

C2_Witness ==
  /\ pc = "save"
  /\ mode = "parallel"
  /\ Len(forest.trees) >= 2
  /\ forest.trees[1].task > forest.trees[2].task

\* C3: a thread is inside Forest::AddTree only while it owns writelock, so
\* at most one thread is inside AddTree at a time.
C3_AddTreeUnderLock ==
  /\ \A w \in Threads :
       wpc[w] \in {"AddTree", "AddTreeStore", "omp_unset_lock"}
         => writelock = w
  /\ Cardinality(Appending) <= 1

C3_Witness ==
  \E w1, w2 \in Threads :
    /\ w1 # w2
    /\ wpc[w1] = "AddTreeStore"
    /\ writelock = w1
    /\ wpc[w2] = "omp_set_lock"

\* C4: no two threads are drawing from the random source at the same time.
C4_RandomDrawsSerialized ==
  Cardinality(Drawing) <= 1

\* C5: built without OpenMP with more than one thread requested, the run is
\* not aborted: the fallback note is printed, MaxThreads becomes 1, the
\* single-threaded trainer runs and Serialize is called; with one thread
\* requested the note is never printed.
C5_FallbackToSingleThread ==
  /\ (/\ ~USE_OPENMP
      /\ mexOptions.MaxThreads > 1
      /\ Entered
      /\ pc \in {"create_forest", "save", "Serialize", "returned"})
     => /\ "Fallback" \in printed
        /\ options.MaxThreads = 1
        /\ pc = "create_forest" => outcome = "running"
        /\ pc \in {"save", "Serialize"} =>
             mode = "single" /\ outcome = "running"
        /\ pc = "returned" => mode = "single" /\ serializeCalls = 1
  /\ mexOptions.MaxThreads = 1 => "Fallback" \notin printed

C5_Witness ==
  /\ ~USE_OPENMP
  /\ mexOptions.MaxThreads > 1
  /\ pc = "returned"
  /\ "Fallback" \in printed
  /\ mode = "single"
  /\ serializeCalls = 1

\* C6: a training run calls Serialize exactly once, after all training:
\* from the moment the forest is saved no thread is in the loop body, no
\* iteration is left, the lock is free, and the forest no longer changes.
C6_QuiescentWhenSaving ==
  /\ serializeCalls <= 1
  /\ serializeCalls = 1 => pc = "returned"
  /\ (Entered /\ pc = "returned") => serializeCalls = 1
  /\ AfterTraining =>
       /\ InBody = {}
       /\ pending = {}
       /\ writelock = NoLock

C6_SerializeOnceAfterTraining ==
  /\ []C6_QuiescentWhenSaving
  /\ [][AfterTraining => forest' = forest]_vars

C6_Witness ==
  /\ pc = "Serialize"
  /\ mode = "parallel"
  /\ serializeCalls = 0
  /\ Len(forest.trees) = MaxTrees

\* C7: a run whose output file could not be opened or written ends in an
\* error.
C7_SinkFailureIsFatal ==
  (pc = "returned" /\ sink \in {"fail", "bad"}) => outcome = "error"

\* C8: with a non-positive depth, candidate count or tree count, a run that
\* enters main_function trains nothing, writes no file and ends in an error.
InvalidConfiguration(o) ==
  \/ o.MaxDecisionLevels <= 0
  \/ o.NumberOfCandidateFeatures <= 0
  \/ o.NumberOfCandidateThresholdsPerFeature <= 0
  \/ o.NumberOfTrees <= 0

C8_InvalidConfigurationRejected ==
  (Entered /\ InvalidConfiguration(mexOptions)) =>
    /\ mode = "none"
    /\ forest.trees = <<>>
    /\ ~artifact.exists
    /\ pc = "returned" => outcome = "error"

\* C9: a run instantiated with RandomHyperplaneFeatureResponseNormalized has
\* FeatureScaling set, and the statistics given to its factory have one
\* entry per feature dimension.
C9_NormalizedHasStatistics ==
  F = Normalized =>
    /\ options.FeatureScaling
    /\ AfterStats =>
         /\ Len(featureStats) = Dimensions
         /\ factoryStats = featureStats

C9_Witness ==
  /\ F = Normalized
  /\ mode # "none"
  /\ Dimensions = MaxDimensions
  /\ Len(factoryStats) = MaxDimensions

\* C10 as claimed: training without feature scaling with a learner other
\* than axis-aligned is always reported.
C10_NoScalingAlwaysReported ==
  (AfterStats /\ ~options.FeatureScaling /\ options.WeakLearner # AxisAligned)
    => "NoScaling" \in printed

\* C10 as amended: the condition is reported exactly when Verbose is set,
\* whatever the other options are, and training goes on either way.
C10_NoScalingReportedWhenVerbose ==
  AfterStats =>
    /\ "NoScaling" \in printed <=>
         (/\ ~options.FeatureScaling
          /\ options.WeakLearner # AxisAligned
          /\ options.Verbose)
    /\ (~options.FeatureScaling /\ options.WeakLearner # AxisAligned) =>
         /\ pc \in {"openmp_check", "create_forest", "parallel_for", "save",
                    "Serialize"} => outcome = "running"
         /\ AfterTraining => mode # "none"

C10_Witness ==
  /\ pc = "returned"
  /\ "NoScaling" \in printed
  /\ mode # "none"
  /\ Len(forest.trees) = MaxTrees

\* C12: a run in which the training of a tree failed never saves a forest
\* and does not end as a success; whenever Serialize is called, and whenever
\* a run ends as a success, the forest holds all NumberOfTrees trees.
C12_NoPartialForestAsSuccess ==
  /\ outcome \in {"fault", "terminate"} =>
       /\ pc = "returned"
       /\ serializeCalls = 0
       /\ ~artifact.exists
  /\ (Entered /\ (pc = "Serialize" \/ serializeCalls > 0)) =>
       /\ forest.ptr = "alloc"
       /\ Len(forest.trees) = trainingParameters.NumberOfTrees
  /\ (Entered /\ outcome = "success") =>
       Len(forest.trees) = trainingParameters.NumberOfTrees

C12_Witness ==
  /\ outcome = "terminate"
  /\ mode = "parallel"
  /\ Len(forest.trees) >= 1
  /\ Len(forest.trees) < trainingParameters.NumberOfTrees
  /\ serializeCalls = 0

\* Position of iteration t in the order in which trainings completed.
CompletionRank(t) == CHOOSE k \in 1..Len(finished) : finished[k] = t

\* The iterations of the trees of the forest, in forest order.
ForestTasks == [i \in 1..Len(forest.trees) |-> forest.trees[i].task]

\* C13 as claimed: a tree whose training completed before that of another
\* tree precedes it in the forest.
C13_ForestInCompletionOrder ==
  \A i, j \in 1..Len(forest.trees) :
    i < j => CompletionRank(forest.trees[i].task)
               < CompletionRank(forest.trees[j].task)

\* C13 as amended: the forest is in append order.  Inside the parallel for
\* the forest only changes by the owner of writelock putting its tree
\* behind all trees already there; every tree of the forest has completed
\* its training; in single-threaded mode forest order is completion order;
\* and a completely written artifact has the trees in forest order.
C13_AppendStep ==
  (pc = "parallel_for" /\ forest' # forest) =>
    \E w \in Threads :
      /\ writelock = w
      /\ wpc[w] = "AddTreeStore"
      /\ forest'.trees = Append(forest.trees, wtree[w])

C13_OrderState ==
  /\ \A i \in 1..Len(forest.trees) :
       \E k \in 1..Len(finished) : finished[k] = forest.trees[i].task
  /\ mode = "single" => (forest.ptr = "alloc" => ForestTasks = finished)
  /\ artifact.complete => artifact.trees = forest.trees

C13_ForestInAppendOrder ==
  /\ []C13_OrderState
  /\ [][C13_AppendStep]_vars

C13_Witness ==
  /\ pc = "returned"
  /\ mode = "parallel"
  /\ artifact.complete
  /\ Len(forest.trees) = MaxTrees
  /\ ForestTasks # finished

C15_RunsToCompletion ==
  /\ <>(pc = "returned")
  /\ Entered ~> (serializeCalls = 1)
  /\ \A w \in Threads : (writelock = w) ~> (writelock # w)
  /\ \A w \in Threads : (wpc[w] = "omp_set_lock") ~> (wpc[w] = "AddTree")
  /\ (pc = "parallel_for") ~>
       (/\ pc = "save"
        /\ pending = {}
        /\ Len(forest.trees) = trainingParameters.NumberOfTrees)

C15_Witness ==
  \E w1, w2 \in Threads :
    /\ w1 # w2
    /\ writelock = w1
    /\ wpc[w2] = "omp_set_lock"
    /\ pending = {}
    /\ lockAcquisitions = MaxTrees - 1

\* C16: once the "Create forest" statement has finished exactly one of the
\* two branches has run: the single-threaded trainer if and only if the
\* effective MaxThreads is 1, otherwise the OpenMP loop after
\* omp_set_num_threads(MaxThreads); the branch that did not run has left no
\* trace; and the training parameters are the values of the options.
C16_ExactlyOneMode ==
  /\ AfterTraining =>
       /\ mode \in {"single", "parallel"}
       /\ mode = "single" <=> options.MaxThreads = 1
  /\ mode = "none" => "Using1Thread" \notin printed /\ ompNumThreads = 0
  /\ mode = "single" =>
       /\ "Using1Thread" \in printed
       /\ ompNumThreads = 0
       /\ lockAcquisitions = 0
       /\ \A w \in Threads : wpc[w] = "out"
  /\ mode = "parallel" =>
       /\ "Using1Thread" \notin printed
       /\ USE_OPENMP
       /\ ompNumThreads = options.MaxThreads
       /\ (pc = "parallel_for" /\ options.MaxThreads >= 1) =>
            Cardinality({w \in Threads : wpc[w] # "out"}) = options.MaxThreads
  /\ (Entered /\ pc \notin {"mexFunction", "main_function"}) =>
       /\ trainingParameters.MaxDecisionLevels = mexOptions.MaxDecisionLevels
       /\ trainingParameters.NumberOfCandidateFeatures
            = mexOptions.NumberOfCandidateFeatures
       /\ trainingParameters.NumberOfCandidateThresholdsPerFeature
            = mexOptions.NumberOfCandidateThresholdsPerFeature
       /\ trainingParameters.NumberOfTrees = mexOptions.NumberOfTrees

C16_Witness ==
  /\ pc = "save"
  /\ mode = "parallel"
  /\ ompNumThreads = MaxThreadsBound
  /\ Len(forest.trees) = MaxTrees

\* C17: whenever Serialize is about to be called or has been called, for
\* either build and any MaxThreads, the forest handle is not null.
C17_ForestAllocatedAtSerialize ==
  (pc = "Serialize" \/ serializeCalls > 0) =>
    /\ forest.ptr = "alloc"
    /\ outcome # "crash"

C17_Witness ==
  /\ pc = "Serialize"
  /\ ~USE_OPENMP
  /\ mexOptions.MaxThreads = 0
  /\ forest.ptr = "alloc"

\* C18: the variant is fixed by WeakLearner and FeatureScaling as in the
\* table below and never changes; for any other WeakLearner the call
\* returns at once as a success with nothing printed, trained or written;
\* and nothing runs after the call has returned, so a call trains at most
\* once.
C18_VariantTable ==
  pc # "mexFunction" =>
    /\ mexOptions.WeakLearner = AxisAligned
         => F = "AxisAlignedFeatureResponse"
    /\ (mexOptions.WeakLearner = RandomHyperplane
          /\ ~mexOptions.FeatureScaling)
         => F = "RandomHyperplaneFeatureResponse"
    /\ (mexOptions.WeakLearner = RandomHyperplane
          /\ mexOptions.FeatureScaling)
         => F = "RandomHyperplaneFeatureResponseNormalized"
    /\ mexOptions.WeakLearner \notin {AxisAligned, RandomHyperplane} =>
         /\ F = "none"
         /\ pc = "returned"
         /\ outcome = "success"
         /\ mode = "none"
         /\ printed = {}
         /\ forest = NullForest
         /\ serializeCalls = 0
         /\ ~artifact.exists

C18_OneRunStep ==
  /\ pc # "returned"
  /\ pc # "mexFunction" => F' = F
  /\ pc' = "main_function" => pc = "mexFunction"

C18_DispatchByLearnerAndScaling ==
  /\ []C18_VariantTable
  /\ [][C18_OneRunStep]_vars

C18_Witness ==
  /\ pc = "returned"
  /\ mexOptions.WeakLearner = OtherLearner
  /\ mexOptions.NumberOfTrees = MaxTrees
  /\ F = "none"

\* C19: once built, the feature statistics are empty without
\* FeatureScaling and otherwise hold, for d = 0 .. Dimensions-1 in this
\* order, the dataset's statistics of feature d, whatever the variant; the
\* factory holds the same list; and neither changes from then on.
C19_StatsState ==
  AfterStats =>
    /\ ~options.FeatureScaling => featureStats = <<>>
    /\ options.FeatureScaling =>
         /\ Len(featureStats) = Dimensions
         /\ \A d \in 0..Dimensions - 1 : featureStats[d + 1] = GetStats(d)
    /\ factoryStats = featureStats

C19_StatsStep ==
  AfterStats =>
    /\ featureStats' = featureStats
    /\ factoryStats' = factoryStats

C19_FeatureStatsComplete ==
  /\ []C19_StatsState
  /\ [][C19_StatsStep]_vars

C19_Witness ==
  /\ pc = "returned"
  /\ F = "AxisAlignedFeatureResponse"
  /\ options.FeatureScaling
  /\ Dimensions = MaxDimensions
  /\ Len(factoryStats) = MaxDimensions
  /\ mode = "parallel"
====
